---- MODULE Spec2Model ----
(***************************************************************************)
(* The EC2 Image Builder pipeline orchestrator of src/imagebuilder.py      *)
(* (class CreateImagePipeline) as a state machine.  One action per remote  *)
(* call of run() and of the methods it calls; the cloud account (Image     *)
(* Builder registries, IAM, S3) is part of the state, and every remote     *)
(* call issued is appended to the log `calls`.                             *)
(***************************************************************************)
EXTENDS Integers, Sequences, FiniteSets, TLC

(* ------------------------------ bounds --------------------------------- *)

\* Runs of the orchestrator in sequence on the same definition.
MaxRuns == 2
\* Longest list of component definitions in the pipeline definition.
MaxComponents == 2
\* Revisions of the inline component name and of the recipe name that the
\* account may hold before the first run.
MaxRev == 1

(* --------------------------- program constants ------------------------- *)

\* The identity service's bound on the policy-version history.
PolicyVersionLimit == 5

None == "None"
\* None where an identifier, a name or an object key is expected.
NoArn == [name |-> None]
NoName == <<>>
NoKey == <<>>

RequiredKeys ==
  {"platform", "components", "image-recipe", "instance-profile",
   "infrastructure-configuration", "distribution-configuration", "pipeline-name"}

\* Names the pipeline definition configures.
PipelineName == "pipe"
InfraName == "infra"
DistName == "dist"
RecipeName == "base-recipe"
InlineName == "install-agent"
ProfileName == "web"
Bucket == "bucket"

\* Names of resources of the account that the definition does not mention.
OtherName == "other"

\* An identifier of the component registry: the part before any suffix, and
\* the suffixes appended to it.
RefArn == [name |-> "ref", ver |-> <<1, 0, 0>>, tail |-> <<>>]

\* component[component_name]['arn'] + '/1'
AppendBuild(arn) == [arn EXCEPT !.tail = Append(@, "/1")]

\* The identifier create_component returns for a new revision.
BuildArn(name, version) == [name |-> name, ver |-> version, tail |-> <<"/1">>]

\* The two kinds of component definition: by reference (arn given) and inline.
ByReference == [name |-> "ref", arn |-> RefArn]
Inline == [name |-> InlineName, arn |-> NoArn]
ComponentDefs == {ByReference, Inline}

\* minor = 1 + len(listing); version = f'0.0.{minor}'
Version_Off(listing) == <<0, 0, Len(listing)>>
Version(listing) == <<0, 0, 1 + Len(listing)>>

\* 'imagebuilder-{}'.format(profile_dict['name']), as the pieces it is made of
ResourceName(name) == <<"imagebuilder-", name>>
DefaultProfile == <<"ec2-image-builder-default">>

\* 'ec2-image-builder-default' in d['InstanceProfileName']
NameContains(profileName, piece) ==
  \E i \in 1..Len(profileName) : profileName[i] = piece

\* The existence test of create_instance_profile on the listed profiles.
ProfileExists_ByName(listed) == ResourceName(ProfileName) \in listed
ProfileExists(listed) ==
  Cardinality({d \in listed : NameContains(d, "ec2-image-builder-default")}) > 0

(* A set of records with an id field as the sequence a listing returns.     *)
RECURSIVE SetToSeq(_)
SetToSeq(S) ==
  IF S = {} THEN <<>>
  ELSE LET m == CHOOSE x \in S : \A y \in S : x.id <= y.id
       IN <<m>> \o SetToSeq(S \ {m})

\* The name filter of the list calls.
Named(S, name) == {x \in S : x.name = name}
ByName(S, name) == SetToSeq({x \in S : x.name = name})

RECURSIVE SeqsUpTo(_, _)
SeqsUpTo(S, n) ==
  IF n = 0 THEN {<<>>}
  ELSE LET shorter == SeqsUpTo(S, n - 1)
       IN shorter \cup {Append(s, x) : s \in {t \in shorter : Len(t) = n - 1}, x \in S}

(* ------------------------------- state --------------------------------- *)

VARIABLES
  \* the orchestrator (fields of CreateImagePipeline and locals of run)
  pc, runNo, update, start_pipeline, component_bucket, pipeline_dict,
  idx, component_list, version, response, key_name,
  recipe_arn, instance_profile_name, infrastructure_arn, distribution_arn,
  pipeline_arn, image_arn, error,
  \* the cloud account
  registry, components, recipes, infraConfigs, distConfigs, pipelines,
  iam, objects, builds, nextId,
  \* every remote call issued, in order
  calls

\* the run's inputs: the command line and the loaded definition
inputs == <<update, start_pipeline, component_bucket, pipeline_dict>>
\* the locals of create_components
loopVars == <<idx, component_list, version, key_name>>
\* the identifiers run() threads from stage to stage
arnVars == <<recipe_arn, instance_profile_name, infrastructure_arn,
             distribution_arn, pipeline_arn, image_arn>>
progVars == <<pc, runNo, inputs, loopVars, response, arnVars, error>>
versioned == <<registry, components, recipes>>
configs == <<infraConfigs, distConfigs>>
acctVars == <<versioned, configs, pipelines, iam, objects, builds, nextId>>
vars == <<progVars, acctVars, calls>>

(* --------------------------- the cloud account ------------------------- *)

\* What get_component answers: identifiers it rejects as malformed, and the
\* build versions it holds.
RegistryStates ==
  { [stored |-> {RefArn}, rejected |-> {}],
    [stored |-> {}, rejected |-> {}],
    [stored |-> {AppendBuild(RefArn)}, rejected |-> {RefArn}],
    [stored |-> {}, rejected |-> {RefArn}] }

ComponentRev(name, ver, id) == [name |-> name, version |-> ver, id |-> id]
RecipeRev(name, ver, id, comps) ==
  [name |-> name, version |-> ver, id |-> id, components |-> comps]

OtherArn == [name |-> OtherName, id |-> 0]
OtherRecipeArn == [name |-> OtherName, ver |-> <<0, 0, 1>>]
RecipeArn(name, ver) == [name |-> name, ver |-> ver]
ArnOf(x) == [name |-> x.name, id |-> x.id]

Config(name, id, profile) ==
  [name |-> name, id |-> id, instanceProfileName |-> profile]
Dist(name, id) == [name |-> name, id |-> id]
Pipe(name, id, recipe, infra, dist) ==
  [name |-> name, id |-> id, imageRecipeArn |-> recipe,
   infrastructureConfigurationArn |-> infra, distributionConfigurationArn |-> dist]

FullHistory == [i \in 1..PolicyVersionLimit |-> PolicyVersionLimit + 1 - i]

\* The identity service: instance profiles under /imagebuilder/, roles,
\* policies, the version history of the policy (newest first) with its
\* default version, and the attachments.
IamEmpty ==
  [profiles |-> {}, roles |-> {}, policies |-> {}, versions |-> <<>>,
   defaultVersion |-> 0, attached |-> {}, profileRoles |-> {}]
IamWith(profs, history) ==
  IF ResourceName(ProfileName) \in profs
  THEN [profiles |-> profs,
        roles |-> {ResourceName(ProfileName)},
        policies |-> {ResourceName(ProfileName)},
        versions |-> history,
        defaultVersion |-> history[1],
        attached |-> {<<ResourceName(ProfileName), ResourceName(ProfileName)>>},
        profileRoles |-> {<<ResourceName(ProfileName), ResourceName(ProfileName)>>}]
  ELSE [IamEmpty EXCEPT !.profiles = profs]
IamStates ==
  {IamWith(p, <<1>>) : p \in SUBSET {ResourceName(ProfileName), DefaultProfile}}
    \cup {IamWith({ResourceName(ProfileName), DefaultProfile}, FullHistory)}

(* ------------------------------- Init ---------------------------------- *)

HasRef(defs) == \E i \in 1..Len(defs) : defs[i].arn # NoArn
HasInline(defs) == \E i \in 1..Len(defs) : defs[i].arn = NoArn

\* The pipeline definitions explored: complete ones with every component
\* list up to MaxComponents, and one definition per missing required key.
\* The account varies in what the run reads: the registry's answers when a
\* component is given by reference, the revisions of the inline name when
\* one is inline, the identity service when a policy file is given; a
\* pipeline of the configured name exists only with both its configurations.
CompleteDefinitions ==
  [keys : {RequiredKeys},
   components : SeqsUpTo(ComponentDefs, MaxComponents) \ {<<>>},
   profileFile : BOOLEAN]
IncompleteDefinitions ==
  [keys : {RequiredKeys \ {k} : k \in RequiredKeys},
   components : {<<Inline>>},
   profileFile : {TRUE}]

InitProgram(d, u, s, b) ==
  /\ pc = "start"
  /\ runNo = 1
  /\ update = u
  /\ start_pipeline = s
  /\ component_bucket = b
  /\ pipeline_dict = d
  /\ idx = 0
  /\ component_list = <<>>
  /\ version = <<>>
  /\ response = <<>>
  /\ key_name = NoKey
  /\ recipe_arn = NoArn
  /\ instance_profile_name = NoName
  /\ infrastructure_arn = NoArn
  /\ distribution_arn = NoArn
  /\ pipeline_arn = NoArn
  /\ image_arn = NoArn
  /\ error = None
  /\ calls = <<>>

InitAccount(reg, nComp, nRecipe, hasInfra, hasDist, hasPipe, ids) ==
  /\ registry = reg
  /\ components = {ComponentRev(InlineName, <<0, 0, n>>, n) : n \in 1..nComp}
                    \cup {ComponentRev(OtherName, <<0, 0, 1>>, 0)}
  /\ recipes = {RecipeRev(RecipeName, <<0, 0, n>>, n, <<[componentArn |-> RefArn]>>) :
                   n \in 1..nRecipe}
                 \cup {RecipeRev(OtherName, <<0, 0, 1>>, 0, <<[componentArn |-> RefArn]>>)}
  /\ infraConfigs = {Config(OtherName, 0, <<OtherName>>)}
       \cup (IF hasInfra THEN {Config(InfraName, 0, <<ProfileName>>)} ELSE {})
  /\ distConfigs = {Dist(OtherName, 0)}
                     \cup (IF hasDist THEN {Dist(DistName, 0)} ELSE {})
  /\ pipelines = {Pipe(OtherName, 0, OtherRecipeArn, OtherArn, OtherArn)}
       \cup (IF hasPipe
             THEN {Pipe(PipelineName, 0, OtherRecipeArn,
                        [name |-> InfraName, id |-> 0], [name |-> DistName, id |-> 0])}
             ELSE {})
  /\ iam = ids
  /\ objects = {}
  /\ builds = {}
  /\ nextId = MaxRev + 1

Init ==
  \/ \E d \in CompleteDefinitions, u \in BOOLEAN, s \in BOOLEAN :
       /\ \E b \in (IF HasInline(d.components) THEN {None, Bucket} ELSE {None}) :
            InitProgram(d, u, s, b)
       /\ \E reg \in (IF HasRef(d.components) THEN RegistryStates
                      ELSE {[stored |-> {RefArn}, rejected |-> {}]}),
             nComp \in (IF HasInline(d.components) THEN 0..MaxRev ELSE {0}),
             nRecipe \in 0..MaxRev,
             hasInfra \in BOOLEAN, hasDist \in BOOLEAN, hasPipe \in BOOLEAN,
             ids \in (IF d.profileFile THEN IamStates
                      ELSE {IamWith({ResourceName(ProfileName)}, <<1>>)}) :
            /\ hasPipe => hasInfra /\ hasDist
            /\ InitAccount(reg, nComp, nRecipe, hasInfra, hasDist, hasPipe, ids)
  \/ \E d \in IncompleteDefinitions, u \in BOOLEAN :
       /\ InitProgram(d, u, FALSE, None)
       /\ InitAccount([stored |-> {RefArn}, rejected |-> {}], 0, 0, FALSE, FALSE,
                      FALSE, IamEmpty)

(* ----------------------------- control flow ---------------------------- *)

\* The order in which run() calls the provisioning methods.
RunOrder_SpecOrder ==
  <<"create_components", "create_instance_profile", "create_image_recipe",
    "create_infrastructure_config", "create_distribution_configuration",
    "create_image_pipeline">>
RunOrder ==
  <<"create_components", "create_image_recipe", "create_instance_profile",
    "create_infrastructure_config", "create_distribution_configuration",
    "create_image_pipeline">>

\* Where run() goes when `method` returns.
Following_AlwaysStart(method) ==
  LET i == CHOOSE k \in 1..Len(RunOrder) : RunOrder[k] = method
  IN IF i < Len(RunOrder) THEN RunOrder[i + 1] ELSE "start_image_pipeline"
Following(method) ==
  LET i == CHOOSE k \in 1..Len(RunOrder) : RunOrder[k] = method
  IN IF i < Len(RunOrder) THEN RunOrder[i + 1]
     ELSE IF start_pipeline THEN "start_image_pipeline" ELSE "done"

\* if self.update: self.delete_pipeline_resources(pipeline_dict)
AfterSession_NoTeardown == RunOrder[1]
AfterSession == IF update THEN "delete_pipeline_resources" ELSE RunOrder[1]

HasKey(k) == k \in pipeline_dict.keys

\* One remote call, as the log holds it.
\* What a call answered: success, a listing, a new identifier, an exception.
Ok == [status |-> "ok"]
Listed(listing) == [status |-> "ok", listing |-> listing]
Made(arn) == [status |-> "ok", arn |-> arn]
Err(e) == [status |-> e]

Call(phase, op, arg, ret) ==
  [run |-> runNo, phase |-> phase, op |-> op, arg |-> arg, ret |-> ret]
Answer(phase, op, arg, ret) == calls' = Append(calls, Call(phase, op, arg, ret))
Issue(phase, op, arg) == Answer(phase, op, arg, Ok)

\* An exception nothing catches ends the run.
Raise_Retry(e) == pc' = pc /\ error' = e
Raise(e) == pc' = "failed" /\ error' = e

\* pipeline_dict[k] of a missing key
KeyError(k) ==
  /\ Raise("KeyError")
  /\ UNCHANGED <<runNo, inputs, loopVars, response, arnVars, acctVars, calls>>

(* ------------------------------- run() --------------------------------- *)

\* get_session_details, then the definition is loaded
GetSessionDetails ==
  /\ pc = "start"
  /\ calls' = calls \o <<Call("session", "sts.get_caller_identity", [name |-> None], Ok),
                         Call("session", "iam.list_account_aliases", [name |-> None], Ok)>>
  /\ pc' = AfterSession
  /\ UNCHANGED <<runNo, inputs, loopVars, response, arnVars, error, acctVars>>

(* ---------------------- delete_pipeline_resources ---------------------- *)

\* The guards of the three deletes of delete_pipeline_resources.
DeletesPipeline_Never(listing) == FALSE
DeletesPipeline(listing) == Len(listing) > 0
DeletesConfig_Always(listing) == TRUE
DeletesConfig(listing) == Len(listing) > 0 /\ update

\* delete_* by identifier
Without_All(S, arn) == {}
Without(S, arn) == {x \in S : ArnOf(x) # arn}

TdListImagePipelines ==
  /\ pc = "delete_pipeline_resources"
  /\ IF ~HasKey("pipeline-name") THEN KeyError("pipeline-name")
     ELSE /\ response' = ByName(pipelines, PipelineName)
          /\ Answer("teardown", "list_image_pipelines", [name |-> PipelineName],
                    Listed(response'))
          /\ pc' = IF DeletesPipeline(response') THEN "td_delete_image_pipeline"
                   ELSE "td_list_infrastructure_configurations"
          /\ UNCHANGED <<runNo, inputs, loopVars, arnVars, error, acctVars>>

TdDeleteImagePipeline ==
  /\ pc = "td_delete_image_pipeline"
  /\ Issue("teardown", "delete_image_pipeline", ArnOf(response[1]))
  /\ pipelines' = Without(pipelines, ArnOf(response[1]))
  /\ pc' = "td_list_infrastructure_configurations"
  /\ UNCHANGED <<runNo, inputs, loopVars, response, arnVars, error, versioned,
                 configs, iam, objects, builds, nextId>>

TdListInfrastructureConfigurations ==
  /\ pc = "td_list_infrastructure_configurations"
  /\ IF ~HasKey("infrastructure-configuration")
     THEN KeyError("infrastructure-configuration")
     ELSE /\ response' = ByName(infraConfigs, InfraName)
          /\ Answer("teardown", "list_infrastructure_configurations", [name |-> InfraName],
                    Listed(response'))
          /\ pc' = IF DeletesConfig(response')
                   THEN "td_delete_infrastructure_configuration"
                   ELSE "td_list_distribution_configurations"
          /\ UNCHANGED <<runNo, inputs, loopVars, arnVars, error, acctVars>>

TdDeleteInfrastructureConfiguration ==
  /\ pc = "td_delete_infrastructure_configuration"
  /\ Issue("teardown", "delete_infrastructure_configuration", ArnOf(response[1]))
  /\ infraConfigs' = Without(infraConfigs, ArnOf(response[1]))
  /\ pc' = "td_list_distribution_configurations"
  /\ UNCHANGED <<runNo, inputs, loopVars, response, arnVars, error, versioned,
                 distConfigs, pipelines, iam, objects, builds, nextId>>

TdListDistributionConfigurations ==
  /\ pc = "td_list_distribution_configurations"
  /\ IF ~HasKey("distribution-configuration")
     THEN KeyError("distribution-configuration")
     ELSE /\ response' = ByName(distConfigs, DistName)
          /\ Answer("teardown", "list_distribution_configurations", [name |-> DistName],
                    Listed(response'))
          /\ pc' = IF DeletesConfig(response')
                   THEN "td_delete_distribution_configuration"
                   ELSE RunOrder[1]
          /\ UNCHANGED <<runNo, inputs, loopVars, arnVars, error, acctVars>>

TdDeleteDistributionConfiguration ==
  /\ pc = "td_delete_distribution_configuration"
  /\ Issue("teardown", "delete_distribution_configuration", ArnOf(response[1]))
  /\ distConfigs' = Without(distConfigs, ArnOf(response[1]))
  /\ pc' = RunOrder[1]
  /\ UNCHANGED <<runNo, inputs, loopVars, response, arnVars, error, versioned,
                 infraConfigs, pipelines, iam, objects, builds, nextId>>

(* --------------------------- create_components ------------------------- *)

\* The branch of the loop body for component definition i, or the return.
ComponentPc(i) ==
  IF i > Len(pipeline_dict.components) THEN Following("create_components")
  ELSE IF pipeline_dict.components[i].arn # NoArn THEN "get_component"
  ELSE "list_components"

Component == pipeline_dict.components[idx]

\* The record appended for a by-reference component whose retry succeeded.
RetriedArn_Unchanged(arn) == arn
RetriedArn(arn) == AppendBuild(arn)

\* component_list.append({'componentArn': ...})
Record_Front(list, arn) == <<[componentArn |-> arn]>> \o list
Record(list, arn) == Append(list, [componentArn |-> arn])

\* The list after the handler of ResourceNotFoundException, which only logs.
AfterNotFound_Dropped(list) == <<>>
AfterNotFound(list) == list

\* What a create_component call carries as its body.
ComponentBody_AlwaysInline(bucket, key) == [data |-> "yaml", uri |-> <<>>]
ComponentBody(bucket, key) ==
  IF bucket = None THEN [data |-> "yaml", uri |-> <<>>]
  ELSE [data |-> None, uri |-> <<bucket, key>>]

CreateComponents ==
  /\ pc = "create_components"
  /\ IF ~HasKey("platform") THEN KeyError("platform")
     ELSE IF ~HasKey("components") THEN KeyError("components")
     ELSE /\ idx' = 1
          /\ component_list' = <<>>
          /\ pc' = ComponentPc(1)
          /\ UNCHANGED <<runNo, inputs, version, key_name, response, arnVars, error,
                         acctVars, calls>>

NextComponent(list) ==
  /\ component_list' = list
  /\ idx' = idx + 1
  /\ pc' = ComponentPc(idx + 1)

\* get_component: InvalidParameterValueException for an identifier the
\* registry rejects, ResourceNotFoundException for one it does not hold.
GetComponent ==
  /\ pc = "get_component"
  /\ IF Component.arn \in registry.rejected
     THEN /\ Answer("components", "get_component", Component.arn,
                    Err("InvalidParameterValueException"))
          /\ pc' = "get_component_retry"
          /\ UNCHANGED <<idx, component_list>>
     ELSE IF Component.arn \in registry.stored
     THEN /\ Issue("components", "get_component", Component.arn)
          /\ NextComponent(Record(component_list, Component.arn))
     ELSE /\ Answer("components", "get_component", Component.arn,
                    Err("ResourceNotFoundException"))
          /\ NextComponent(AfterNotFound(component_list))
  /\ UNCHANGED <<runNo, inputs, version, key_name, response, arnVars, error, acctVars>>

\* the lookup in the except clause: whatever it raises, nothing catches
GetComponentRetry ==
  /\ pc = "get_component_retry"
  /\ IF AppendBuild(Component.arn) \in registry.stored
        /\ AppendBuild(Component.arn) \notin registry.rejected
     THEN /\ Issue("components", "get_component", AppendBuild(Component.arn))
          /\ NextComponent(Record(component_list, RetriedArn(Component.arn)))
          /\ UNCHANGED error
     ELSE /\ Answer("components", "get_component", AppendBuild(Component.arn),
                    Err("ResourceNotFoundException"))
          /\ Raise("ClientError")
          /\ UNCHANGED <<idx, component_list>>
  /\ UNCHANGED <<runNo, inputs, version, key_name, response, arnVars, acctVars>>

ListComponents ==
  /\ pc = "list_components"
  /\ response' = ByName(components, Component.name)
  /\ Answer("components", "list_components", [name |-> Component.name],
                    Listed(response'))
  /\ version' = Version(response')
  /\ pc' = IF component_bucket = None THEN "create_component" ELSE "put_object"
  /\ UNCHANGED <<runNo, inputs, idx, component_list, key_name, arnVars, error, acctVars>>

\* s3.Bucket(...).put_object; the key holds the component name and the time
PutObject ==
  /\ pc = "put_object"
  /\ key_name' = <<Component.name, nextId>>
  /\ Issue("components", "put_object",
           [name |-> Component.name, uri |-> <<component_bucket, key_name'>>])
  /\ objects' = objects \cup {<<component_bucket, key_name'>>}
  /\ nextId' = nextId + 1
  /\ pc' = "create_component"
  /\ UNCHANGED <<runNo, inputs, idx, component_list, version, response, arnVars, error,
                 versioned, configs, pipelines, iam, builds>>

\* create_component; the registry refuses a version the name already has
CreateComponent ==
  /\ pc = "create_component"
  /\ IF \E c \in components : c.name = Component.name /\ c.version = version
     THEN /\ Answer("components", "create_component",
                    [name |-> Component.name, semanticVersion |-> version]
                      @@ ComponentBody(component_bucket, key_name),
                    Err("ResourceAlreadyExistsException"))
          /\ Raise("ClientError")
          /\ UNCHANGED <<idx, component_list, components, nextId>>
     ELSE /\ Answer("components", "create_component",
                    [name |-> Component.name, semanticVersion |-> version]
                      @@ ComponentBody(component_bucket, key_name),
                    Made(BuildArn(Component.name, version)))
          /\ components' = components \cup {ComponentRev(Component.name, version, nextId)}
          /\ nextId' = nextId + 1
          /\ NextComponent(Record(component_list, BuildArn(Component.name, version)))
          /\ UNCHANGED error
  /\ UNCHANGED <<runNo, inputs, version, key_name, response, arnVars, registry, recipes,
                 configs, pipelines, iam, objects, builds>>

(* -------------------------- create_image_recipe ------------------------ *)

ListImageRecipes ==
  /\ pc = "create_image_recipe"
  /\ IF ~HasKey("image-recipe") THEN KeyError("image-recipe")
     ELSE /\ response' = ByName(recipes, RecipeName)
          /\ Answer("recipe", "list_image_recipes", [name |-> RecipeName],
                    Listed(response'))
          /\ version' = Version(response')
          /\ pc' = "create_image_recipe_call"
          /\ UNCHANGED <<runNo, inputs, idx, component_list, key_name, arnVars, error,
                         acctVars>>

\* create_image_recipe; the registry refuses an empty component list and a
\* version the name already has
CreateImageRecipe ==
  /\ pc = "create_image_recipe_call"
  /\ IF \/ component_list = <<>>
        \/ \E r \in recipes : r.name = RecipeName /\ r.version = version
     THEN /\ Answer("recipe", "create_image_recipe",
                    [name |-> RecipeName, semanticVersion |-> version,
                     components |-> component_list],
                    Err("ClientError"))
          /\ Raise("ClientError")
          /\ UNCHANGED <<recipe_arn, recipes, nextId>>
     ELSE /\ Answer("recipe", "create_image_recipe",
                    [name |-> RecipeName, semanticVersion |-> version,
                     components |-> component_list],
                    Made(RecipeArn(RecipeName, version)))
          /\ recipes' = recipes \cup {RecipeRev(RecipeName, version, nextId, component_list)}
          /\ nextId' = nextId + 1
          /\ recipe_arn' = RecipeArn(RecipeName, version)
          /\ pc' = Following("create_image_recipe")
          /\ UNCHANGED error
  /\ UNCHANGED <<runNo, inputs, loopVars, response, instance_profile_name,
                 infrastructure_arn, distribution_arn, pipeline_arn, image_arn,
                 registry, components, configs, pipelines, iam, objects, builds>>

(* ------------------------ create_instance_profile ---------------------- *)

PolicyOf(name) == ResourceName(name)

\* The identity service numbers a new policy version after the newest.
NewVersionId == IF iam.versions = <<>> THEN 1 ELSE iam.versions[1] + 1

\* list_policy_versions: the history as the service lists it
ListedVersions ==
  [i \in 1..Len(iam.versions) |->
     [VersionId |-> iam.versions[i],
      IsDefaultVersion |-> iam.versions[i] = iam.defaultVersion]]

\* VersionId=response['Versions'][-1]['VersionId']
EvictedVersion_First(listing) == listing[1].VersionId
EvictedVersion(listing) == listing[Len(listing)].VersionId

RECURSIVE Remove(_, _)
Remove(seq, v) ==
  IF seq = <<>> THEN <<>>
  ELSE IF Head(seq) = v THEN Remove(Tail(seq), v)
  ELSE <<Head(seq)>> \o Remove(Tail(seq), v)

\* run() lines 150-154 and the head of create_instance_profile: without a
\* policy file the configured name is used as it is; with one, the profiles
\* under /imagebuilder/ are listed and the existence test decides.
InstanceProfileStage ==
  /\ pc = "create_instance_profile"
  /\ IF ~HasKey("instance-profile") THEN KeyError("instance-profile")
     ELSE IF ~pipeline_dict.profileFile
     THEN /\ instance_profile_name' = <<ProfileName>>
          /\ pc' = Following("create_instance_profile")
          /\ UNCHANGED <<calls, error>>
     ELSE /\ Issue("profile", "list_instance_profiles", [name |-> "/imagebuilder/"])
          /\ IF ProfileExists(iam.profiles)
             THEN IF update
                  THEN /\ pc' = "create_policy_version"
                       /\ UNCHANGED instance_profile_name
                  ELSE /\ instance_profile_name' = ResourceName(ProfileName)
                       /\ pc' = Following("create_instance_profile")
             ELSE /\ pc' = "iam_create_instance_profile"
                  /\ UNCHANGED instance_profile_name
          /\ UNCHANGED error
  /\ UNCHANGED <<runNo, inputs, loopVars, response, recipe_arn, infrastructure_arn,
                 distribution_arn, pipeline_arn, image_arn, acctVars>>

\* The effect of create_policy_version(SetAsDefault=True) when it succeeds.
PushVersion ==
  iam' = [iam EXCEPT !.versions = <<NewVersionId>> \o @,
                     !.defaultVersion = NewVersionId]

\* create_policy_version: NoSuchEntity without the policy, LimitExceeded with
\* a full history
CreatePolicyVersion ==
  /\ pc = "create_policy_version"
  /\ IF PolicyOf(ProfileName) \notin iam.policies
     THEN /\ Answer("profile", "create_policy_version", [name |-> ProfileName],
                    Err("NoSuchEntityException"))
          /\ Raise("ClientError")
          /\ UNCHANGED <<iam, instance_profile_name>>
     ELSE IF Len(iam.versions) >= PolicyVersionLimit
     THEN /\ Answer("profile", "create_policy_version", [name |-> ProfileName],
                    Err("LimitExceededException"))
          /\ pc' = "list_policy_versions"
          /\ UNCHANGED <<iam, instance_profile_name, error>>
     ELSE /\ Issue("profile", "create_policy_version", [name |-> ProfileName])
          /\ PushVersion
          /\ instance_profile_name' = ResourceName(ProfileName)
          /\ pc' = Following("create_instance_profile")
          /\ UNCHANGED error
  /\ UNCHANGED <<runNo, inputs, loopVars, response, recipe_arn, infrastructure_arn,
                 distribution_arn, pipeline_arn, image_arn, versioned, configs,
                 pipelines, objects, builds, nextId>>

ListPolicyVersions ==
  /\ pc = "list_policy_versions"
  /\ response' = ListedVersions
  /\ Answer("profile", "list_policy_versions", [name |-> ProfileName], Listed(response'))
  /\ pc' = "delete_policy_version"
  /\ UNCHANGED <<runNo, inputs, loopVars, arnVars, error, acctVars>>

\* delete_policy_version: the service refuses to delete the default version
DeletePolicyVersion ==
  /\ pc = "delete_policy_version"
  /\ IF EvictedVersion(response) = iam.defaultVersion
     THEN /\ Answer("profile", "delete_policy_version",
                    [name |-> ProfileName, VersionId |-> EvictedVersion(response)],
                    Err("DeleteConflictException"))
          /\ Raise("ClientError")
          /\ UNCHANGED iam
     ELSE /\ Issue("profile", "delete_policy_version",
                   [name |-> ProfileName, VersionId |-> EvictedVersion(response)])
          /\ iam' = [iam EXCEPT !.versions = Remove(@, EvictedVersion(response))]
          /\ pc' = "create_policy_version_retry"
          /\ UNCHANGED error
  /\ UNCHANGED <<runNo, inputs, loopVars, response, arnVars, versioned, configs,
                 pipelines, objects, builds, nextId>>

\* the second create_policy_version, in the except clause
CreatePolicyVersionRetry ==
  /\ pc = "create_policy_version_retry"
  /\ IF Len(iam.versions) >= PolicyVersionLimit
     THEN /\ Answer("profile", "create_policy_version", [name |-> ProfileName],
                    Err("LimitExceededException"))
          /\ Raise("ClientError")
          /\ UNCHANGED <<iam, instance_profile_name>>
     ELSE /\ Issue("profile", "create_policy_version", [name |-> ProfileName])
          /\ PushVersion
          /\ instance_profile_name' = ResourceName(ProfileName)
          /\ pc' = Following("create_instance_profile")
          /\ UNCHANGED error
  /\ UNCHANGED <<runNo, inputs, loopVars, response, recipe_arn, infrastructure_arn,
                 distribution_arn, pipeline_arn, image_arn, versioned, configs,
                 pipelines, objects, builds, nextId>>

\* One of the five calls that make a profile: refused (EntityAlreadyExists,
\* NoSuchEntity) when `refused`, else it has `effect` and control goes on.
IamStep_Continues(at, op, refused, effect, next) ==
  /\ pc = at
  /\ IF refused
     THEN /\ Answer("profile", op, [name |-> ProfileName], Err("ClientError"))
          /\ pc' = next
          /\ UNCHANGED <<iam, error>>
     ELSE /\ Issue("profile", op, [name |-> ProfileName])
          /\ iam' = effect
          /\ pc' = next
          /\ UNCHANGED error
  /\ UNCHANGED <<runNo, inputs, loopVars, response, recipe_arn, infrastructure_arn,
                 distribution_arn, pipeline_arn, image_arn, versioned, configs,
                 pipelines, objects, builds, nextId>>
IamStep(at, op, refused, effect, next) ==
  /\ pc = at
  /\ IF refused
     THEN /\ Answer("profile", op, [name |-> ProfileName], Err("ClientError"))
          /\ Raise("ClientError")
          /\ UNCHANGED iam
     ELSE /\ Issue("profile", op, [name |-> ProfileName])
          /\ iam' = effect
          /\ pc' = next
          /\ UNCHANGED error
  /\ UNCHANGED <<runNo, inputs, loopVars, response, recipe_arn, infrastructure_arn,
                 distribution_arn, pipeline_arn, image_arn, versioned, configs,
                 pipelines, objects, builds, nextId>>

IamCreateInstanceProfile ==
  /\ IamStep("iam_create_instance_profile", "create_instance_profile",
             ResourceName(ProfileName) \in iam.profiles,
             [iam EXCEPT !.profiles = @ \cup {ResourceName(ProfileName)}],
             "create_role")
  /\ UNCHANGED instance_profile_name

CreateRole ==
  /\ IamStep("create_role", "create_role",
             ResourceName(ProfileName) \in iam.roles,
             [iam EXCEPT !.roles = @ \cup {ResourceName(ProfileName)}],
             "create_policy")
  /\ UNCHANGED instance_profile_name

CreatePolicy ==
  /\ IamStep("create_policy", "create_policy",
             PolicyOf(ProfileName) \in iam.policies,
             [iam EXCEPT !.policies = @ \cup {PolicyOf(ProfileName)},
                         !.versions = <<1>>, !.defaultVersion = 1],
             "attach_role_policy")
  /\ UNCHANGED instance_profile_name

AttachRolePolicy ==
  /\ IamStep("attach_role_policy", "attach_role_policy", FALSE,
             [iam EXCEPT !.attached =
                @ \cup {<<ResourceName(ProfileName), PolicyOf(ProfileName)>>}],
             "add_role_to_instance_profile")
  /\ UNCHANGED instance_profile_name

AddRoleToInstanceProfile ==
  /\ IamStep("add_role_to_instance_profile", "add_role_to_instance_profile",
             \E pr \in iam.profileRoles : pr[1] = ResourceName(ProfileName),
             [iam EXCEPT !.profileRoles =
                @ \cup {<<ResourceName(ProfileName), ResourceName(ProfileName)>>}],
             Following("create_instance_profile"))
  /\ instance_profile_name' =
       IF pc' = "failed" THEN instance_profile_name ELSE ResourceName(ProfileName)

(* ---- create_infrastructure_config, create_distribution_configuration -- *)

\* len(response[...SummaryList]) > 0: the configuration is reused
Reuses_Never(listing) == FALSE
Reuses(listing) == Len(listing) > 0

ListInfrastructureConfigurations ==
  /\ pc = "create_infrastructure_config"
  /\ IF ~HasKey("infrastructure-configuration")
     THEN KeyError("infrastructure-configuration")
     ELSE /\ response' = ByName(infraConfigs, InfraName)
          /\ Answer("infra", "list_infrastructure_configurations", [name |-> InfraName],
                    Listed(response'))
          /\ IF Reuses(response')
             THEN /\ infrastructure_arn' = ArnOf(response'[1])
                  /\ pc' = Following("create_infrastructure_config")
             ELSE /\ pc' = "create_infrastructure_configuration"
                  /\ UNCHANGED infrastructure_arn
          /\ UNCHANGED <<runNo, inputs, loopVars, recipe_arn, instance_profile_name,
                         distribution_arn, pipeline_arn, image_arn, error, acctVars>>

\* create_infrastructure_configuration; names are unique in the account
CreateInfrastructureConfiguration ==
  /\ pc = "create_infrastructure_configuration"
  /\ IF \E c \in infraConfigs : c.name = InfraName
     THEN /\ Answer("infra", "create_infrastructure_configuration",
                    [name |-> InfraName, instanceProfileName |-> instance_profile_name],
                    Err("ResourceAlreadyExistsException"))
          /\ Raise("ClientError")
          /\ UNCHANGED <<infraConfigs, nextId, infrastructure_arn>>
     ELSE /\ Answer("infra", "create_infrastructure_configuration",
                    [name |-> InfraName, instanceProfileName |-> instance_profile_name],
                    Made([name |-> InfraName, id |-> nextId]))
          /\ infraConfigs' =
               infraConfigs \cup {Config(InfraName, nextId, instance_profile_name)}
          /\ nextId' = nextId + 1
          /\ infrastructure_arn' = [name |-> InfraName, id |-> nextId]
          /\ pc' = Following("create_infrastructure_config")
          /\ UNCHANGED error
  /\ UNCHANGED <<runNo, inputs, loopVars, response, recipe_arn, instance_profile_name,
                 distribution_arn, pipeline_arn, image_arn, versioned, distConfigs,
                 pipelines, iam, objects, builds>>

ListDistributionConfigurations ==
  /\ pc = "create_distribution_configuration"
  /\ IF ~HasKey("distribution-configuration")
     THEN KeyError("distribution-configuration")
     ELSE /\ response' = ByName(distConfigs, DistName)
          /\ Answer("dist", "list_distribution_configurations", [name |-> DistName],
                    Listed(response'))
          /\ IF Reuses(response')
             THEN /\ distribution_arn' = ArnOf(response'[1])
                  /\ pc' = Following("create_distribution_configuration")
             ELSE /\ pc' = "create_distribution_configuration_call"
                  /\ UNCHANGED distribution_arn
          /\ UNCHANGED <<runNo, inputs, loopVars, recipe_arn, instance_profile_name,
                         infrastructure_arn, pipeline_arn, image_arn, error, acctVars>>

CreateDistributionConfiguration ==
  /\ pc = "create_distribution_configuration_call"
  /\ IF \E c \in distConfigs : c.name = DistName
     THEN /\ Answer("dist", "create_distribution_configuration", [name |-> DistName],
                    Err("ResourceAlreadyExistsException"))
          /\ Raise("ClientError")
          /\ UNCHANGED <<distConfigs, nextId, distribution_arn>>
     ELSE /\ Answer("dist", "create_distribution_configuration", [name |-> DistName],
                    Made([name |-> DistName, id |-> nextId]))
          /\ distConfigs' = distConfigs \cup {Dist(DistName, nextId)}
          /\ nextId' = nextId + 1
          /\ distribution_arn' = [name |-> DistName, id |-> nextId]
          /\ pc' = Following("create_distribution_configuration")
          /\ UNCHANGED error
  /\ UNCHANGED <<runNo, inputs, loopVars, response, recipe_arn, instance_profile_name,
                 infrastructure_arn, pipeline_arn, image_arn, versioned, infraConfigs,
                 pipelines, iam, objects, builds>>

(* ------------- create_image_pipeline, start_image_pipeline ------------- *)

\* len(response['imagePipelineList']) > 0: the pipeline is deleted first
Recreates_Never(listing) == FALSE
Recreates(listing) == Len(listing) > 0

ListImagePipelines ==
  /\ pc = "create_image_pipeline"
  /\ IF ~HasKey("pipeline-name") THEN KeyError("pipeline-name")
     ELSE /\ response' = ByName(pipelines, PipelineName)
          /\ Answer("pipeline", "list_image_pipelines", [name |-> PipelineName],
                    Listed(response'))
          /\ pc' = IF Recreates(response') THEN "delete_image_pipeline"
                   ELSE "create_image_pipeline_call"
          /\ UNCHANGED <<runNo, inputs, loopVars, arnVars, error, acctVars>>

DeleteImagePipeline ==
  /\ pc = "delete_image_pipeline"
  /\ Issue("pipeline", "delete_image_pipeline", ArnOf(response[1]))
  /\ pipelines' = Without(pipelines, ArnOf(response[1]))
  /\ pc' = "create_image_pipeline_call"
  /\ UNCHANGED <<runNo, inputs, loopVars, response, arnVars, error, versioned,
                 configs, iam, objects, builds, nextId>>

\* create_image_pipeline of the service; names are unique in the account
CreateImagePipeline ==
  /\ pc = "create_image_pipeline_call"
  /\ IF \E p \in pipelines : p.name = PipelineName
     THEN /\ Answer("pipeline", "create_image_pipeline",
                    [name |-> PipelineName, imageRecipeArn |-> recipe_arn,
                     infrastructureConfigurationArn |-> infrastructure_arn,
                     distributionConfigurationArn |-> distribution_arn],
                    Err("ResourceAlreadyExistsException"))
          /\ Raise("ClientError")
          /\ UNCHANGED <<pipelines, nextId, pipeline_arn>>
     ELSE /\ Answer("pipeline", "create_image_pipeline",
                    [name |-> PipelineName, imageRecipeArn |-> recipe_arn,
                     infrastructureConfigurationArn |-> infrastructure_arn,
                     distributionConfigurationArn |-> distribution_arn],
                    Made([name |-> PipelineName, id |-> nextId]))
          /\ pipelines' = pipelines \cup
               {Pipe(PipelineName, nextId, recipe_arn, infrastructure_arn,
                     distribution_arn)}
          /\ nextId' = nextId + 1
          /\ pipeline_arn' = [name |-> PipelineName, id |-> nextId]
          /\ pc' = Following("create_image_pipeline")
          /\ UNCHANGED error
  /\ UNCHANGED <<runNo, inputs, loopVars, response, recipe_arn, instance_profile_name,
                 infrastructure_arn, distribution_arn, image_arn, versioned, configs,
                 iam, objects, builds>>

StartImagePipeline ==
  /\ pc = "start_image_pipeline"
  /\ Answer("start", "start_image_pipeline_execution", pipeline_arn,
            Made([name |-> "image", id |-> nextId]))
  /\ builds' = builds \cup {[pipeline |-> pipeline_arn, id |-> nextId]}
  /\ nextId' = nextId + 1
  /\ image_arn' = [name |-> "image", id |-> nextId]
  /\ pc' = "done"
  /\ UNCHANGED <<runNo, inputs, loopVars, response, recipe_arn, instance_profile_name,
                 infrastructure_arn, distribution_arn, pipeline_arn, error, versioned,
                 configs, pipelines, iam, objects>>

(* ------------------------- failures and reruns ------------------------- *)

\* The places where control waits on a remote call, with the required key
\* (if any) that run() reads before the call.
KeyRead ==
  [p \in {"delete_pipeline_resources", "create_image_pipeline"} |-> "pipeline-name"]
  @@ [p \in {"td_list_infrastructure_configurations",
             "create_infrastructure_config"} |-> "infrastructure-configuration"]
  @@ [p \in {"td_list_distribution_configurations",
             "create_distribution_configuration"} |-> "distribution-configuration"]
  @@ [p \in {"create_image_recipe"} |-> "image-recipe"]
  @@ [p \in {"create_instance_profile"} |-> "instance-profile"]

AtRemoteCall ==
  /\ pc \notin {"create_components", "done", "failed"}
  /\ pc \in DOMAIN KeyRead => HasKey(KeyRead[pc])
  /\ pc = "create_instance_profile" => pipeline_dict.profileFile

\* A remote call fails with an error no except clause names (network,
\* throttling, permission): it has no effect and the exception ends the run.
RemoteError ==
  /\ AtRemoteCall
  /\ Raise("RemoteError")
  /\ UNCHANGED <<runNo, inputs, loopVars, response, arnVars, acctVars, calls>>

\* After a run that completed, the orchestrator is run again on the same
\* definition with the same options.
Rerun ==
  /\ pc = "done"
  /\ runNo < MaxRuns
  /\ runNo' = runNo + 1
  /\ pc' = "start"
  /\ idx' = 0
  /\ component_list' = <<>>
  /\ version' = <<>>
  /\ response' = <<>>
  /\ key_name' = NoKey
  /\ recipe_arn' = NoArn
  /\ instance_profile_name' = NoName
  /\ infrastructure_arn' = NoArn
  /\ distribution_arn' = NoArn
  /\ pipeline_arn' = NoArn
  /\ image_arn' = NoArn
  /\ error' = None
  /\ UNCHANGED <<inputs, acctVars, calls>>

Next ==
  \/ GetSessionDetails
  \/ TdListImagePipelines
  \/ TdDeleteImagePipeline
  \/ TdListInfrastructureConfigurations
  \/ TdDeleteInfrastructureConfiguration
  \/ TdListDistributionConfigurations
  \/ TdDeleteDistributionConfiguration
  \/ CreateComponents
  \/ GetComponent
  \/ GetComponentRetry
  \/ ListComponents
  \/ PutObject
  \/ CreateComponent
  \/ ListImageRecipes
  \/ CreateImageRecipe
  \/ InstanceProfileStage
  \/ CreatePolicyVersion
  \/ ListPolicyVersions
  \/ DeletePolicyVersion
  \/ CreatePolicyVersionRetry
  \/ IamCreateInstanceProfile
  \/ CreateRole
  \/ CreatePolicy
  \/ AttachRolePolicy
  \/ AddRoleToInstanceProfile
  \/ ListInfrastructureConfigurations
  \/ CreateInfrastructureConfiguration
  \/ ListDistributionConfigurations
  \/ CreateDistributionConfiguration
  \/ ListImagePipelines
  \/ DeleteImagePipeline
  \/ CreateImagePipeline
  \/ StartImagePipeline
  \/ RemoteError
  \/ Rerun

Spec == Init /\ [][Next]_vars

(* ----------------------- deletions between runs ------------------------ *)

\* A revision of the configured component or recipe name that nothing in
\* the account refers to.
Unreferenced ==
  [components |->
     {c \in Named(components, InlineName) :
        \A r \in recipes : \A k \in 1..Len(r.components) :
          r.components[k].componentArn # BuildArn(c.name, c.version)},
   recipes |->
     {r \in Named(recipes, RecipeName) :
        \A p \in pipelines : p.imageRecipeArn # RecipeArn(r.name, r.version)}]

\* Between two runs somebody deletes a revision the earlier runs or the
\* account's history left: list_components and list_image_recipes of the
\* next run no longer list it.
DeleteRevision ==
  /\ pc = "done"
  /\ runNo < MaxRuns
  /\ \/ \E c \in Unreferenced.components :
          components' = components \ {c} /\ UNCHANGED recipes
     \/ \E r \in Unreferenced.recipes :
          recipes' = recipes \ {r} /\ UNCHANGED components
  /\ UNCHANGED <<progVars, registry, configs, pipelines, iam, objects, builds,
                 nextId, calls>>

NextWithDeletions == Next \/ DeleteRevision

SpecWithDeletions == Init /\ [][NextWithDeletions]_vars

(* ======================================================================= *)
(*                               The claims                                *)
(* ======================================================================= *)

Idx == 1..Len(calls)
CallsOfRun(r) == {i \in Idx : calls[i].run = r}
Of(r, phase, op) ==
  {i \in CallsOfRun(r) : calls[i].phase = phase /\ calls[i].op = op}
Succeeded(i) == calls[i].ret.status = "ok"

(* C1: a definition that lacks a required top-level key makes the run fail  *)
(* before any remote call.  Stated for the calls of teardown and of the     *)
(* provisioning stages (list, get, create, delete); the two identity calls  *)
(* of get_session_details, which run() makes before it even loads the       *)
(* definition, are left aside.                                              *)
C1_IncompleteDefinitionIssuesNoCall ==
  pipeline_dict.keys # RequiredKeys =>
    \A i \in Idx : calls[i].phase = "session"

(* C2: in every run the remote calls are ordered by stage.  The stage       *)
(* numbers of the specification: 1 Component Resolver, 2 Instance Profile   *)
(* Provisioner, 3 Image Recipe Provisioner, 4 Infrastructure, 5             *)
(* Distribution, 6 Pipeline (with the optional start).                      *)
SpecStage(phase) ==
  CASE phase = "components" -> 1
    [] phase = "profile" -> 2
    [] phase = "recipe" -> 3
    [] phase = "infra" -> 4
    [] phase = "dist" -> 5
    [] phase \in {"pipeline", "start"} -> 6
    [] OTHER -> 0

\* Two calls of one run, one right after the other.
Consecutive(i, j) == j = i + 1 /\ j \in Idx /\ calls[i].run = calls[j].run

\* C2 as stated: no call of a later-numbered stage precedes a call of an
\* earlier-numbered stage of the same run (the stage number never drops from
\* one call to the next).
C2_SpecStageOrder ==
  \A i \in Idx :
    Consecutive(i, i + 1) =>
      SpecStage(calls[i].phase) <= SpecStage(calls[i + 1].phase)

\* The order the code runs the stages in: the recipe before the profile.
CodeStage(phase) ==
  CASE phase = "components" -> 1
    [] phase = "recipe" -> 2
    [] phase = "profile" -> 3
    [] phase = "infra" -> 4
    [] phase = "dist" -> 5
    [] phase \in {"pipeline", "start"} -> 6
    [] OTHER -> 0

(* C2 amended: in every run the stages execute in the fixed order Component *)
(* Resolver, Image Recipe Provisioner, Instance Profile Provisioner,        *)
(* Infrastructure, Distribution, Pipeline; no call of a later stage in this *)
(* order precedes a call of an earlier one, and no stage is re-entered.     *)
C2_CodeStageOrder ==
  \A i \in Idx :
    Consecutive(i, i + 1) =>
      CodeStage(calls[i].phase) <= CodeStage(calls[i + 1].phase)

\* A completed run that called every one of the six stages.
C2_Witness ==
  /\ pc = "done"
  /\ \A ph \in {"components", "recipe", "profile", "infra", "dist", "pipeline"} :
       \E i \in CallsOfRun(runNo) : calls[i].phase = ph

(* C3: with update mode off, create_instance_profile never creates a        *)
(* profile that exists: the orchestrator is never about to issue the        *)
(* identity service's create_instance_profile while a profile named fixed   *)
(* prefix + configured name is in the account.                              *)
C3_ExistingProfileNotCreatedAgain ==
  (~update /\ pc = "iam_create_instance_profile") =>
    ResourceName(ProfileName) \notin iam.profiles

(* C4: two runs in sequence on the same definition without update mode      *)
(* leave exactly one infrastructure and one distribution configuration of   *)
(* the configured names, the second run issues no create call for either,   *)
(* and every run creates exactly one new recipe revision and one new        *)
(* revision for every inline component definition.                          *)
InlineDefs ==
  {k \in 1..Len(pipeline_dict.components) : pipeline_dict.components[k].arn = NoArn}
NewRevisions(r, phase, op) == {calls[i].arg.semanticVersion : i \in Of(r, phase, op)}

C4_RerunCreatesRevisionsOnly ==
  ~update =>
    /\ \A r \in 2..runNo :
         /\ Of(r, "infra", "create_infrastructure_configuration") = {}
         /\ Of(r, "dist", "create_distribution_configuration") = {}
    /\ pc = "done" =>
         /\ Cardinality(Named(infraConfigs, InfraName)) = 1
         /\ Cardinality(Named(distConfigs, DistName)) = 1
         /\ \A r \in 1..runNo :
              /\ Cardinality(Of(r, "recipe", "create_image_recipe")) = 1
              /\ Cardinality(Of(r, "components", "create_component"))
                   = Cardinality(InlineDefs)
              /\ Cardinality(NewRevisions(r, "components", "create_component"))
                   = Cardinality(InlineDefs)
              /\ \A i \in Of(r, "recipe", "create_image_recipe")
                          \cup Of(r, "components", "create_component") :
                   /\ Succeeded(i)
                   /\ \A q \in 1..runNo : \A j \in CallsOfRun(q) :
                        (q # r /\ calls[j].op = calls[i].op) =>
                          calls[j].arg.semanticVersion # calls[i].arg.semanticVersion
         /\ \A r \in 1..runNo : \A i \in Of(r, "recipe", "create_image_recipe") :
              \E rev \in Named(recipes, RecipeName) :
                rev.version = calls[i].arg.semanticVersion
         /\ \A r \in 1..runNo : \A i \in Of(r, "components", "create_component") :
              \E rev \in Named(components, calls[i].arg.name) :
                rev.version = calls[i].arg.semanticVersion

\* Two completed runs without update mode on a definition with an inline component.
C4_Witness ==
  /\ ~update
  /\ pc = "done"
  /\ runNo = 2
  /\ InlineDefs # {}
  /\ Of(1, "infra", "create_infrastructure_configuration") # {}

(* C5: create_image_pipeline deletes an existing pipeline of the name       *)
(* before it creates the new one, in either run mode, and two pipelines of  *)
(* that name are never live together.                                       *)
C5_DeleteBeforeCreate ==
  /\ Cardinality(Named(pipelines, PipelineName)) <= 1
  /\ pc = "create_image_pipeline_call" => Named(pipelines, PipelineName) = {}
  /\ \A r \in 1..runNo : \A c \in Of(r, "pipeline", "create_image_pipeline") :
       \A l \in Of(r, "pipeline", "list_image_pipelines") :
         Len(calls[l].ret.listing) > 0 =>
           /\ l + 2 = c
           /\ calls[l + 1].op = "delete_image_pipeline"
           /\ calls[l + 1].arg = ArnOf(calls[l].ret.listing[1])

\* The stage found a pipeline, deleted it and created the new one.
C5_Witness ==
  \E c \in Of(runNo, "pipeline", "create_image_pipeline") :
    /\ Succeeded(c)
    /\ calls[c - 1].op = "delete_image_pipeline"
    /\ Cardinality(Named(pipelines, PipelineName)) = 1

(* C6: the infrastructure and the distribution configuration provisioners   *)
(* return the listed configuration and issue no create call when the        *)
(* name-filtered listing is not empty, and issue exactly one create call    *)
(* and return what it produced when the listing is empty.                   *)
ListOp(kind) ==
  IF kind = "infra" THEN "list_infrastructure_configurations"
  ELSE "list_distribution_configurations"
CreateOp(kind) ==
  IF kind = "infra" THEN "create_infrastructure_configuration"
  ELSE "create_distribution_configuration"
DeleteOp(kind) ==
  IF kind = "infra" THEN "delete_infrastructure_configuration"
  ELSE "delete_distribution_configuration"
Returned(kind) == IF kind = "infra" THEN infrastructure_arn ELSE distribution_arn

C6_ReuseOrCreateOnce ==
  \A kind \in {"infra", "dist"} :
    /\ \A r \in 1..runNo :
         /\ Cardinality(Of(r, kind, CreateOp(kind))) <= 1
         /\ \A l \in Of(r, kind, ListOp(kind)) :
              Len(calls[l].ret.listing) > 0 => Of(r, kind, CreateOp(kind)) = {}
    /\ Returned(kind) # NoArn =>
         \E l \in Of(runNo, kind, ListOp(kind)) :
           IF Len(calls[l].ret.listing) > 0
           THEN /\ Returned(kind) = ArnOf(calls[l].ret.listing[1])
                /\ Of(runNo, kind, CreateOp(kind)) = {}
           ELSE /\ Of(runNo, kind, CreateOp(kind)) = {l + 1}
                /\ Succeeded(l + 1)
                /\ Returned(kind) = calls[l + 1].ret.arn

\* One run that reused the infrastructure configuration and created the
\* distribution configuration.
C6_Witness ==
  /\ pc = "done"
  /\ Of(runNo, "infra", CreateOp("infra")) = {}
  /\ infrastructure_arn = [name |-> InfraName, id |-> 0]
  /\ Of(runNo, "dist", CreateOp("dist")) # {}
  /\ distribution_arn # NoArn

(* C7: teardown deletes only the pipeline, the infrastructure               *)
(* configuration and the distribution configuration of the names the        *)
(* definition gives, the two configurations only when they are present and  *)
(* update mode is set; components, recipes, instance profiles, roles,       *)
(* policies and resources of other names are left as they are.              *)
TeardownPcs ==
  {"delete_pipeline_resources", "td_delete_image_pipeline",
   "td_list_infrastructure_configurations", "td_delete_infrastructure_configuration",
   "td_list_distribution_configurations", "td_delete_distribution_configuration"}

\* What one step may do to a registry keyed by name: nothing, or remove the
\* entries of `name`.
OnlyLoses(S, T, name) == T \subseteq S /\ (S \ T) \subseteq Named(S, name)

C7_TeardownStep ==
  pc \in TeardownPcs =>
    /\ UNCHANGED <<registry, components, recipes, iam, objects, builds>>
    /\ OnlyLoses(pipelines, pipelines', PipelineName)
    /\ OnlyLoses(infraConfigs, infraConfigs', InfraName)
    /\ OnlyLoses(distConfigs, distConfigs', DistName)
    /\ infraConfigs' # infraConfigs => update /\ Named(infraConfigs, InfraName) # {}
    /\ distConfigs' # distConfigs => update /\ Named(distConfigs, DistName) # {}

TeardownCallsNamed ==
  \A i \in Idx :
    calls[i].phase = "teardown" =>
      /\ calls[i].op \in
           {"list_image_pipelines", "delete_image_pipeline",
            "list_infrastructure_configurations", "delete_infrastructure_configuration",
            "list_distribution_configurations", "delete_distribution_configuration"}
      /\ calls[i].op \in {"list_image_pipelines", "delete_image_pipeline"} =>
           calls[i].arg.name = PipelineName
      /\ calls[i].op \in {"list_infrastructure_configurations",
                          "delete_infrastructure_configuration"} =>
           calls[i].arg.name = InfraName /\ (calls[i].op = DeleteOp("infra") => update)
      /\ calls[i].op \in {"list_distribution_configurations",
                          "delete_distribution_configuration"} =>
           calls[i].arg.name = DistName /\ (calls[i].op = DeleteOp("dist") => update)

C7_TeardownFrame == []TeardownCallsNamed /\ [][C7_TeardownStep]_vars

\* Teardown has deleted all three resources, and those of other names remain.
C7_Witness ==
  /\ pc = "create_components"
  /\ Of(runNo, "teardown", "delete_image_pipeline") # {}
  /\ Of(runNo, "teardown", DeleteOp("infra")) # {}
  /\ Of(runNo, "teardown", DeleteOp("dist")) # {}
  /\ Named(pipelines, OtherName) # {}

(* C8: in update mode every teardown call precedes every provisioning call  *)
(* of the run, so a configuration that existed under the configured name    *)
(* is deleted once and created once again, and the pipeline binds the new   *)
(* identifier; without update mode teardown is not run and no               *)
(* infrastructure or distribution configuration is ever deleted.            *)
PipelineArg(kind, c) ==
  IF kind = "infra" THEN calls[c].arg.infrastructureConfigurationArn
  ELSE calls[c].arg.distributionConfigurationArn

C8_TeardownThenRecreate ==
  /\ \A i \in Idx :
       (Consecutive(i, i + 1) /\ calls[i + 1].phase = "teardown") =>
         calls[i].phase \in {"session", "teardown"}
  /\ ~update =>
       \A i \in Idx :
         /\ calls[i].phase # "teardown"
         /\ calls[i].op \notin {DeleteOp("infra"), DeleteOp("dist")}
  /\ update =>
       \A i \in Idx :
         calls[i].phase \notin {"session", "teardown"} =>
           Of(calls[i].run, "teardown", "list_distribution_configurations") # {}
  /\ (update /\ pc = "done") =>
       \A kind \in {"infra", "dist"} :
         \A l \in Of(runNo, "teardown", ListOp(kind)) :
           Len(calls[l].ret.listing) > 0 =>
             /\ Of(runNo, "teardown", DeleteOp(kind)) = {l + 1}
             /\ calls[l + 1].arg = ArnOf(calls[l].ret.listing[1])
             /\ \E c \in Of(runNo, kind, CreateOp(kind)) :
                  /\ Of(runNo, kind, CreateOp(kind)) = {c}
                  /\ l + 1 < c
                  /\ Succeeded(c)
                  /\ calls[c].ret.arn # calls[l + 1].arg
                  /\ \A p \in Of(runNo, "pipeline", "create_image_pipeline") :
                       PipelineArg(kind, p) = calls[c].ret.arn

\* A completed update run that found both configurations and recreated them.
C8_Witness ==
  /\ update
  /\ pc = "done"
  /\ Of(runNo, "teardown", DeleteOp("infra")) # {}
  /\ Of(runNo, "teardown", DeleteOp("dist")) # {}
  /\ Of(runNo, "pipeline", "create_image_pipeline") # {}

(* C9: for a by-reference component, an accepted lookup resolves to the     *)
(* identifier unchanged; a lookup rejected as malformed is retried exactly  *)
(* once with '/1' appended and, when the retry succeeds, resolves to the    *)
(* identifier with '/1' appended; when the retry fails too the run fails    *)
(* and no further retry is made.                                            *)
DefinedArns ==
  {pipeline_dict.components[k].arn : k \in 1..Len(pipeline_dict.components)} \ {NoArn}
Lookups == {i \in Idx : calls[i].op = "get_component"}
FirstLookups == {i \in Lookups : calls[i].arg \in DefinedArns}
Rejected(i) == calls[i].ret.status = "InvalidParameterValueException"

\* The records of the by-reference components, as the answers to the
\* lookups of run r give them: the identifier looked up, for every lookup
\* that succeeded.
RECURSIVE LookedUp(_, _)
LookedUp(r, n) ==
  IF n = 0 THEN <<>>
  ELSE IF calls[n].run = r /\ calls[n].op = "get_component" /\ Succeeded(n)
  THEN Append(LookedUp(r, n - 1), [componentArn |-> calls[n].arg])
  ELSE LookedUp(r, n - 1)

IsReference(record) == record.componentArn.name = RefArn.name

C9_ReferenceResolution ==
  /\ \A i \in Lookups :
       \/ i \in FirstLookups
       \/ /\ i - 1 \in FirstLookups
          /\ Rejected(i - 1)
          /\ calls[i - 1].run = calls[i].run
          /\ calls[i].arg = AppendBuild(calls[i - 1].arg)
  /\ \A i \in FirstLookups :
       (Rejected(i) /\ i + 1 \in Idx) =>
         /\ calls[i + 1].op = "get_component"
         /\ calls[i + 1].arg = AppendBuild(calls[i].arg)
         /\ calls[i + 1].run = calls[i].run
  /\ \A i \in Lookups \ FirstLookups :
       ~Succeeded(i) => i = Len(calls) /\ pc = "failed"
  /\ SelectSeq(component_list, IsReference) = LookedUp(runNo, Len(calls))

\* A completed run that resolved a reference by the retry.
C9_Witness ==
  /\ pc = "done"
  /\ \E k \in 1..Len(component_list) :
       component_list[k].componentArn = AppendBuild(RefArn)

(* C10: with no staging bucket configured, every create call of an inline   *)
(* component carries the body inline (nothing is uploaded, no URI is sent)  *)
(* and its version is 0.0.(n+1), n being the number of revisions of that    *)
(* name listed at the time of the call; the same counting rule gives the    *)
(* version of every recipe revision.                                        *)
CountedVersion(i) == <<0, 0, Len(calls[i].ret.listing) + 1>>

C10_InlineBodyAndCountedVersion ==
  /\ component_bucket = None =>
       /\ objects = {}
       /\ \A i \in Idx :
            /\ calls[i].op # "put_object"
            /\ calls[i].op = "create_component" =>
                 /\ calls[i].arg.data # None
                 /\ calls[i].arg.uri = <<>>
                 /\ calls[i - 1].op = "list_components"
                 /\ calls[i - 1].run = calls[i].run
                 /\ calls[i - 1].arg.name = calls[i].arg.name
                 /\ calls[i].arg.semanticVersion = CountedVersion(i - 1)
       /\ pc = "create_component" =>
            Len(response) = Cardinality(Named(components, Component.name))
  /\ \A i \in Idx :
       calls[i].op = "create_image_recipe" =>
         /\ calls[i - 1].op = "list_image_recipes"
         /\ calls[i - 1].run = calls[i].run
         /\ calls[i - 1].arg.name = calls[i].arg.name
         /\ calls[i].arg.semanticVersion = CountedVersion(i - 1)
  /\ pc = "create_image_recipe_call" =>
       Len(response) = Cardinality(Named(recipes, RecipeName))

\* An inline component created at 0.0.2 over one listed revision, and the
\* recipe created by the same rule, with no bucket configured.
C10_Witness ==
  /\ component_bucket = None
  /\ \E i \in Idx :
       /\ calls[i].op = "create_component"
       /\ Succeeded(i)
       /\ Len(calls[i - 1].ret.listing) = 1
       /\ calls[i].arg.semanticVersion = <<0, 0, 2>>
  /\ \E i \in Idx : calls[i].op = "create_image_recipe" /\ Succeeded(i)

(* C11: with a staging bucket configured, the body of every inline          *)
(* component is uploaded by put_object before the create call, the create   *)
(* call refers to the uploaded object by its URI, and no create call        *)
(* carries an inline body.                                                  *)
C11_UploadThenCreateByUri ==
  component_bucket # None =>
    \A i \in Idx :
      calls[i].op = "create_component" =>
        /\ calls[i].arg.data = None
        /\ calls[i].arg.uri # <<>>
        /\ calls[i].arg.uri[1] = component_bucket
        /\ calls[i - 1].op = "put_object"
        /\ Succeeded(i - 1)
        /\ calls[i - 1].run = calls[i].run
        /\ calls[i - 1].arg.name = calls[i].arg.name
        /\ calls[i - 1].arg.uri = calls[i].arg.uri
        /\ calls[i].arg.uri \in objects

\* A component created from an uploaded object.
C11_Witness ==
  /\ component_bucket # None
  /\ \E i \in Idx :
       /\ calls[i].op = "create_component"
       /\ Succeeded(i)
       /\ calls[i].arg.uri \in objects

(* C12: across runs, also with deletions of earlier revisions in between,  *)
(* the version numbers given to the revisions of one component name, and   *)
(* of one recipe name, are strictly increasing and never used twice.       *)
VersionedCreates == {i \in Idx : calls[i].op \in {"create_component", "create_image_recipe"}}

C12_VersionsStrictlyIncreasing ==
  \A i, j \in VersionedCreates :
    (i < j /\ calls[i].op = calls[j].op /\ calls[i].arg.name = calls[j].arg.name) =>
      calls[i].arg.semanticVersion[3] < calls[j].arg.semanticVersion[3]

(* C13: when the lookup of a by-reference component reports not-found, the *)
(* resolver goes on: the run does not fail at that step, the next          *)
(* definition is processed, and the list keeps the records of all other    *)
(* components in the order of their definitions.                           *)
NotFound(c) ==
  /\ c.op = "get_component"
  /\ c.arg \in DefinedArns
  /\ c.ret.status = "ResourceNotFoundException"

\* The records the answers of run r give, in the order of the calls: the
\* identifier of every lookup that succeeded, and the identifier every
\* create_component returned.
RECURSIVE Resolved(_, _)
Resolved(r, n) ==
  IF n = 0 THEN <<>>
  ELSE IF calls[n].run = r /\ Succeeded(n) /\ calls[n].op = "get_component"
  THEN Append(Resolved(r, n - 1), [componentArn |-> calls[n].arg])
  ELSE IF calls[n].run = r /\ Succeeded(n) /\ calls[n].op = "create_component"
  THEN Append(Resolved(r, n - 1), [componentArn |-> calls[n].ret.arn])
  ELSE Resolved(r, n - 1)

\* The calls that open the processing of one component definition.
Opened(r) ==
  {i \in CallsOfRun(r) :
     \/ calls[i].op = "list_components"
     \/ calls[i].op = "get_component" /\ calls[i].arg \in DefinedArns}

C13_NotFoundStep ==
  (Len(calls') = Len(calls) + 1 /\ NotFound(calls'[Len(calls')])) =>
    /\ pc' # "failed"
    /\ error' = None
    /\ component_list' = component_list
    /\ idx' = idx + 1
    /\ pc' = ComponentPc(idx + 1)

C13_ListComplete ==
  /\ component_list = Resolved(runNo, Len(calls))
  /\ pc \in {"create_image_recipe", "done"} =>
       Cardinality(Opened(runNo)) = Len(pipeline_dict.components)

C13_NotFoundContinues == []C13_ListComplete /\ [][C13_NotFoundStep]_vars

\* A completed run in which a reference was not found and the component
\* defined before it is in the list.
C13_Witness ==
  /\ pc = "done"
  /\ \E i \in CallsOfRun(runNo) : NotFound(calls[i])
  /\ Len(pipeline_dict.components) = 2
  /\ pipeline_dict.components[1].arn = NoArn
  /\ Len(component_list) = 1

(* C14: a run in which a by-reference component is not found ends as a     *)
(* fatal error: no recipe revision and no pipeline is created in that run. *)
C14_NotFoundIsFatal ==
  \A i \in Idx :
    NotFound(calls[i]) =>
      /\ \A j \in CallsOfRun(calls[i].run) :
           calls[j].op \in {"create_image_recipe", "create_image_pipeline"} =>
             ~Succeeded(j)
      /\ (calls[i].run = runNo => pc # "done")

(* C15: in update mode with an existing profile the provisioner pushes a   *)
(* new policy version and makes it the active one; when the push fails on  *)
(* the full version history it deletes the oldest version, never the       *)
(* active one, and retries the push exactly once; a failed retry ends the  *)
(* run with no further eviction or retry.                                  *)
Pushes(r) == Of(r, "profile", "create_policy_version")
Evictions(r) == Of(r, "profile", "delete_policy_version")
LimitExceeded(i) == calls[i].ret.status = "LimitExceededException"
Oldest(listing) ==
  CHOOSE v \in 1..Len(listing) :
    \A w \in 1..Len(listing) : listing[v].VersionId <= listing[w].VersionId

\* The profile stage of an update run never turns to creating a profile
\* that the account already holds.
C15_ExistingProfileIsUpdated ==
  (update /\ ResourceName(ProfileName) \in iam.profiles) =>
    pc # "iam_create_instance_profile"

\* The calls of the eviction path, as the log shows them.
C15_EvictionPath ==
  \A r \in 1..runNo :
    /\ Cardinality(Pushes(r)) <= 2
    /\ Cardinality(Evictions(r)) <= 1
    /\ \A i \in Pushes(r) :
         \/ calls[i - 1].op = "list_instance_profiles"
         \/ /\ calls[i - 1].op = "delete_policy_version"
            /\ Succeeded(i - 1)
            /\ ~Succeeded(i) => i = Len(calls) /\ pc = "failed"
    /\ \A i \in Evictions(r) :
         /\ calls[i - 1].op = "list_policy_versions"
         /\ calls[i - 2].op = "create_policy_version"
         /\ LimitExceeded(i - 2)
         /\ LET listing == calls[i - 1].ret.listing
            IN /\ calls[i].arg.VersionId = listing[Oldest(listing)].VersionId
               /\ ~listing[Oldest(listing)].IsDefaultVersion
         /\ ~Succeeded(i) => i = Len(calls) /\ pc = "failed"
    /\ \A i \in Pushes(r) :
         (LimitExceeded(i) /\ i + 2 \in Idx) =>
           /\ calls[i + 1].op = "list_policy_versions"
           /\ calls[i + 2].op = "delete_policy_version"
           /\ (i + 3 \in Idx /\ calls[i + 3].run = r) =>
                calls[i + 3].op = "create_policy_version"

\* A push that succeeds adds a version and makes it the default one; the
\* retry is followed by the next stage or by the end of the run.
C15_PushStep ==
  /\ (Len(calls') = Len(calls) + 1
      /\ calls'[Len(calls')].op = "create_policy_version"
      /\ calls'[Len(calls')].ret.status = "ok") =>
       /\ Len(iam'.versions) = Len(iam.versions) + 1
       /\ iam'.defaultVersion = iam'.versions[1]
       /\ \A k \in 1..Len(iam.versions) : iam.versions[k] # iam'.defaultVersion
  /\ pc = "create_policy_version_retry" =>
       pc' \in {"failed", Following("create_instance_profile")}

C15_EvictOnceThenRetry == []C15_EvictionPath /\ [][C15_PushStep]_vars

C15_UpdatePushesVersion ==
  []C15_ExistingProfileIsUpdated /\ []C15_EvictionPath /\ [][C15_PushStep]_vars

\* The retry succeeded after an eviction.
C15_Witness ==
  \E i \in Pushes(runNo) :
    /\ Succeeded(i)
    /\ calls[i - 1].op = "delete_policy_version"
    /\ Len(iam.versions) = PolicyVersionLimit

(* C16: a first run without update mode on a definition with one inline    *)
(* component and an instance profile given by name, on an account with no  *)
(* revision of the component or the recipe and no configuration or         *)
(* pipeline of the configured names, creates the component and the recipe  *)
(* at 0.0.1, issues one create call each for the infrastructure            *)
(* configuration, the distribution configuration and the pipeline, and     *)
(* issues no delete call and no call to the identity service.              *)
OpsOf(r) == {calls[i].op : i \in CallsOfRun(r)}
Sole(r, phase, op) == Cardinality(Of(r, phase, op)) = 1
ListedNothing(r, phase, op) ==
  \A i \in Of(r, phase, op) : calls[i].ret.listing = <<>>

\* The first run has completed, and it was a run of the scenario.
FreshScenario ==
  /\ runNo > 1 \/ pc = "done"
  /\ ~update
  /\ pipeline_dict.components = <<Inline>>
  /\ ~pipeline_dict.profileFile
  /\ ListedNothing(1, "components", "list_components")
  /\ ListedNothing(1, "recipe", "list_image_recipes")
  /\ ListedNothing(1, "infra", ListOp("infra"))
  /\ ListedNothing(1, "dist", ListOp("dist"))
  /\ ListedNothing(1, "pipeline", "list_image_pipelines")

DeleteOps ==
  {"delete_image_pipeline", DeleteOp("infra"), DeleteOp("dist"),
   "delete_policy_version"}
ProfileOps ==
  {"list_instance_profiles", "create_instance_profile", "create_role",
   "create_policy", "create_policy_version", "list_policy_versions",
   "delete_policy_version", "attach_role_policy", "add_role_to_instance_profile"}
SessionOps == {"sts.get_caller_identity", "iam.list_account_aliases"}

FreshCreates ==
  /\ Sole(1, "components", "create_component")
  /\ \A i \in Of(1, "components", "create_component") :
       Succeeded(i) /\ calls[i].arg.semanticVersion = <<0, 0, 1>>
  /\ Sole(1, "recipe", "create_image_recipe")
  /\ \A i \in Of(1, "recipe", "create_image_recipe") :
       Succeeded(i) /\ calls[i].arg.semanticVersion = <<0, 0, 1>>
  /\ Sole(1, "infra", CreateOp("infra"))
  /\ Sole(1, "dist", CreateOp("dist"))
  /\ Sole(1, "pipeline", "create_image_pipeline")
  /\ OpsOf(1) \cap DeleteOps = {}

MakeOps ==
  <<"create_instance_profile", "create_role", "create_policy",
    "attach_role_policy", "add_role_to_instance_profile">>
MakePcs ==
  {"iam_create_instance_profile", "create_role", "create_policy",
   "attach_role_policy", "add_role_to_instance_profile"}
IsMake(i) == \E k \in 1..5 : calls[i].op = MakeOps[k]

C17_MakeOrder ==
  \A r \in 1..runNo :
    /\ \A k \in 1..5 :
         /\ Cardinality(Of(r, "profile", MakeOps[k])) <= 1
         /\ \A i \in Of(r, "profile", MakeOps[k]) :
              /\ calls[i - 1].run = r
              /\ Succeeded(i - 1)
              /\ calls[i - 1].op =
                   IF k = 1 THEN "list_instance_profiles" ELSE MakeOps[k - 1]
              /\ ~Succeeded(i) => i = Len(calls) /\ pc = "failed"
    /\ Of(r, "profile", MakeOps[1]) # {} =>
         \A i \in CallsOfRun(r) :
           calls[i].phase = "profile" =>
             calls[i].op = "list_instance_profiles" \/ IsMake(i)

\* A step of the sequence takes nothing away; a failing one changes
\* nothing, and nothing follows the failure.
C17_MakeStep ==
  /\ pc \in MakePcs =>
       /\ iam.profiles \subseteq iam'.profiles
       /\ iam.roles \subseteq iam'.roles
       /\ iam.policies \subseteq iam'.policies
       /\ iam.attached \subseteq iam'.attached
       /\ iam.profileRoles \subseteq iam'.profileRoles
       /\ UNCHANGED <<registry, versioned, configs, pipelines, objects, builds>>
       /\ pc' = "failed" => UNCHANGED iam
  /\ pc # "failed"

Recovered(i) ==
  \/ NotFound(calls[i])
  \/ i \in FirstLookups /\ Rejected(i)
  \/ LimitExceeded(i) /\ calls[i - 1].op = "list_instance_profiles"

\* What the create calls of run r that succeeded made is in the account.
CreatedRemains(r) ==
  \A i \in CallsOfRun(r) :
    Succeeded(i) =>
      /\ calls[i].op = "create_component" =>
           \E c \in components :
             c.name = calls[i].arg.name /\ c.version = calls[i].arg.semanticVersion
      /\ calls[i].op = "create_image_recipe" =>
           \E c \in recipes :
             c.name = calls[i].arg.name /\ c.version = calls[i].arg.semanticVersion
      /\ calls[i].op = CreateOp("infra") =>
           \E c \in infraConfigs : ArnOf(c) = calls[i].ret.arn
      /\ calls[i].op = CreateOp("dist") =>
           \E c \in distConfigs : ArnOf(c) = calls[i].ret.arn
      /\ calls[i].op = "put_object" => calls[i].arg.uri \in objects

C18_FailureIsLast ==
  /\ \A i \in Idx :
       (~Succeeded(i) /\ ~Recovered(i)) => i = Len(calls) /\ pc = "failed"
  /\ pc = "failed" => error # None /\ CreatedRemains(runNo)

\* The failing step touches nothing in the account and issues no call but
\* the failed one; nothing follows it.
C18_FailureStep ==
  /\ pc' = "failed" =>
       /\ UNCHANGED acctVars
       /\ Len(calls') <= Len(calls) + 1
  /\ pc # "failed"

C18_RemoteErrorEndsRun == []C18_FailureIsLast /\ [][C18_FailureStep]_vars

\* The run ended on a transport error after it had created a component
\* revision, the recipe and the infrastructure configuration.
C18_Witness ==
  /\ pc = "failed"
  /\ error = "RemoteError"
  /\ \E i \in Of(runNo, "components", "create_component") : Succeeded(i)
  /\ \E i \in Of(runNo, "recipe", "create_image_recipe") : Succeeded(i)
  /\ \E i \in Of(runNo, "infra", CreateOp("infra")) : Succeeded(i)

(* C19: the component identifiers of the recipe create call stand in the   *)
(* order of the component definitions, for any mix of by-reference and     *)
(* inline components: the i-th definition that was resolved gives the      *)
(* i-th component of the recipe.                                           *)
\* The definitions the resolver finds a record for.
IsResolved(d) == d.arn = NoArn \/ d.arn \in registry.stored \cup registry.rejected
ResolvedDefs == SelectSeq(pipeline_dict.components, IsResolved)

\* Record `arn` is the record of definition d.
RecordOf(d, arn) ==
  IF d.arn = NoArn
  THEN arn.name = d.name /\ arn.tail = <<"/1">>
  ELSE arn \in {d.arn, AppendBuild(d.arn)}

C19_RecipeKeepsDefinitionOrder ==
  \A i \in Idx :
    calls[i].op = "create_image_recipe" =>
      LET comps == calls[i].arg.components
      IN /\ Len(comps) = Len(ResolvedDefs)
         /\ \A k \in 1..Len(comps) : RecordOf(ResolvedDefs[k], comps[k].componentArn)
         /\ \A k, l \in 1..Len(comps) :
              (k < l /\ ResolvedDefs[k].arn = NoArn /\ ResolvedDefs[l].arn = NoArn) =>
                comps[k].componentArn.ver[3] < comps[l].componentArn.ver[3]
         /\ comps = Resolved(calls[i].run, i)

\* A recipe made of an inline component followed by a referenced one.
C19_Witness ==
  \E i \in Idx :
    /\ calls[i].op = "create_image_recipe"
    /\ Succeeded(i)
    /\ Len(calls[i].arg.components) = 2
    /\ calls[i].arg.components[1].componentArn.name = InlineName
    /\ calls[i].arg.components[2].componentArn.name = RefArn.name

(* C20: after every run that completes, exactly one pipeline of the        *)
(* configured name exists; it binds the recipe revision created in this    *)
(* run, never one of an earlier run, and the infrastructure and            *)
(* distribution configuration identifiers the two stages of this run       *)
(* returned.  A build is triggered only with the start flag set, only      *)
(* after the pipeline create call, and on the identifier that call         *)
(* returned.                                                               *)
\* What the configuration stage `kind` of run r returned: the identifier
\* its create call made or, on reuse, the first one its listing held.
StageReturned(r, kind) ==
  {calls[i].ret.arn : i \in {j \in Of(r, kind, CreateOp(kind)) : Succeeded(j)}}
    \cup {ArnOf(calls[i].ret.listing[1]) :
            i \in {j \in Of(r, kind, ListOp(kind)) : Len(calls[j].ret.listing) > 0}}
RecipesMade(r) ==
  {calls[i].ret.arn : i \in {j \in Of(r, "recipe", "create_image_recipe") : Succeeded(j)}}
Starts == {i \in Idx : calls[i].op = "start_image_pipeline_execution"}

C20_PipelineBindsThisRun ==
  /\ pc = "done" =>
       /\ Cardinality(Named(pipelines, PipelineName)) = 1
       /\ \A p \in Named(pipelines, PipelineName) :
            /\ ArnOf(p) = pipeline_arn
            /\ RecipesMade(runNo) = {p.imageRecipeArn}
            /\ \A r \in 1..(runNo - 1) : p.imageRecipeArn \notin RecipesMade(r)
            /\ StageReturned(runNo, "infra") = {p.infrastructureConfigurationArn}
            /\ StageReturned(runNo, "dist") = {p.distributionConfigurationArn}
       /\ Cardinality(Starts \cap CallsOfRun(runNo)) = IF start_pipeline THEN 1 ELSE 0
  /\ ~start_pipeline => Starts = {} /\ builds = {}
  /\ \A i \in Starts :
       /\ start_pipeline
       /\ calls[i - 1].op = "create_image_pipeline"
       /\ calls[i - 1].run = calls[i].run
       /\ Succeeded(i - 1)
       /\ calls[i].arg = calls[i - 1].ret.arn
  /\ \A b \in builds :
       \E i \in Starts : Succeeded(i) /\ calls[i].arg = b.pipeline

\* The second run has completed with the start flag set: its pipeline
\* replaced the one of the first run and a build was started on it.
C20_Witness ==
  /\ pc = "done"
  /\ runNo = 2
  /\ start_pipeline
  /\ Cardinality(builds) = 2
  /\ \E p \in Named(pipelines, PipelineName) : p.imageRecipeArn \notin RecipesMade(1)

(* C21: teardown issues the delete of the pipeline before the delete of    *)
(* the infrastructure configuration, and that before the delete of the     *)
(* distribution configuration, so at no time during teardown does a live   *)
(* pipeline of the configured name refer to a configuration that teardown  *)
(* has already deleted.                                                    *)
\* The identifiers the teardown of run r has deleted, by kind.
TornDown(r, kind) ==
  {calls[i].arg : i \in {j \in Of(r, "teardown", DeleteOp(kind)) : Succeeded(j)}}

C21_PipelineDeletedFirst ==
  /\ \A r \in 1..runNo :
       /\ \A i \in Of(r, "teardown", "delete_image_pipeline") :
            \A j \in Of(r, "teardown", DeleteOp("infra"))
                       \cup Of(r, "teardown", DeleteOp("dist")) : i < j
       /\ \A i \in Of(r, "teardown", DeleteOp("infra")) :
            \A j \in Of(r, "teardown", DeleteOp("dist")) : i < j
  /\ \A p \in Named(pipelines, PipelineName) :
       /\ p.infrastructureConfigurationArn \notin TornDown(runNo, "infra")
       /\ p.distributionConfigurationArn \notin TornDown(runNo, "dist")
       /\ pc \in TeardownPcs =>
            /\ \E c \in infraConfigs : ArnOf(c) = p.infrastructureConfigurationArn
            /\ \E c \in distConfigs : ArnOf(c) = p.distributionConfigurationArn

\* Teardown is under way: the pipeline that referred to the infrastructure
\* configuration was deleted, then the configuration.
C21_Witness ==
  /\ pc = "td_list_distribution_configurations"
  /\ Of(runNo, "teardown", "delete_image_pipeline") # {}
  /\ \E i \in Of(runNo, "teardown", "list_image_pipelines") :
       /\ Len(calls[i].ret.listing) = 1
       /\ calls[i].ret.listing[1].infrastructureConfigurationArn
            \in TornDown(runNo, "infra")

====
